---- MODULE Spec2Model ----
(***************************************************************************)
(* Model of bot.py: a Telegram bot that keeps per-chat memory in a         *)
(* relational table (chat_memory), stores the text of admin-uploaded PDFs  *)
(* (pdf_knowledge), looks tasks up in gd24_tasks, and forwards every text  *)
(* turn to a remote chat model, replying with plain text or with styled    *)
(* text plus a rendered formula.                                           *)
(*                                                                         *)
(* Texts are tuples of one-character strings, so that lower(), `in`,       *)
(* replace() and ILIKE are computed character by character.                *)
(* The handlers are atomic actions: the application processes updates one  *)
(* at a time and call_gemini / render_latex are blocking calls.            *)
(***************************************************************************)
EXTENDS Integers, Sequences, FiniteSets, TLC

VARIABLES
    chat_memory,    \* table chat_memory, in created_at order: rows [chat_id, role, content]
    pdf_knowledge,  \* table pdf_knowledge, in insertion order: rows [file_id, content]
    gd24_tasks,     \* table gd24_tasks (never written by the bot): rows [file_id, question]
    user_data,      \* context.user_data, one dict per sending user
    update,         \* the update handled last
    trace,          \* pipeline stages entered while handling it, in order
    posted,         \* bodies ("messages") POSTed to the chat model while handling it
    latex,          \* expressions sent to the formula endpoint while handling it
    sent,           \* outbound Telegram messages of that handler, in order
    raised,         \* exception that left the handler, or "none"
    tasks,          \* value of the local `tasks` of handle_text (<<>> when not assigned)
    returned,       \* <<answer>> when call_gemini returned, else <<>>
    appended,       \* per chat, the turns save_chat_memory stored during this run
    rows            \* result of the last direct load_chat_memory(chat_id, limit) call

vars == <<chat_memory, pdf_knowledge, gd24_tasks, user_data, update, trace,
          posted, latex, sent, raised, tasks, returned, appended, rows>>

(***************************************************************************)
(* Bounds of the model.                                                    *)
(***************************************************************************)
MaxRows == 4      \* rows the handlers may add to chat_memory
MaxDocs == 2      \* rows the handlers may add to pdf_knowledge
MaxAppend == 3    \* rows appended in the memory-store specification
MaxLimit == 3     \* largest explicit limit tried in the memory-store specification

(***************************************************************************)
(* Program constants.                                                      *)
(***************************************************************************)
ADMIN_ID == 1
DefaultLimit == 20
MaxResults == 5

Users == {ADMIN_ID, 2}
Chats == {1, 2}
\* who writes where: chat 1 is the admin's private chat, chat 2 a group with both users
Senders == { <<ADMIN_ID, 1>>, <<ADMIN_ID, 2>>, <<2, 2>> }
FileIds == {"d1", "d2"}
None == "None"

(***************************************************************************)
(* Text primitives.                                                        *)
(***************************************************************************)
Reverse(s) == [i \in 1..Len(s) |-> s[Len(s) + 1 - i]]

Take(s, n) == SubSeq(s, 1, IF n < Len(s) THEN n ELSE Len(s))

LowerChar(ch) ==
    CASE ch = "H" -> "h"
      [] ch = "I" -> "i"
      [] ch = "X" -> "x"
      [] OTHER -> ch

Lower(t) == [i \in 1..Len(t) |-> LowerChar(t[i])]

\* Python `sub in t`
Contains(sub, t) ==
    \E i \in 0..(Len(t) - Len(sub)) : SubSeq(t, i + 1, i + Len(sub)) = sub

StartsWith(t, p) == Len(p) <= Len(t) /\ SubSeq(t, 1, Len(p)) = p

\* Python t.replace(old, new) for a non-empty old: leftmost, non-overlapping
RECURSIVE Replace(_, _, _)
Replace(t, old, new) ==
    IF t = <<>> THEN <<>>
    ELSE IF StartsWith(t, old)
         THEN new \o Replace(SubSeq(t, Len(old) + 1, Len(t)), old, new)
         ELSE <<t[1]>> \o Replace(Tail(t), old, new)

DigitChar == <<"0", "1", "2", "3", "4", "5", "6", "7", "8", "9">>

\* str(n) for 0 <= n < 100
Str(n) ==
    IF n < 10 THEN <<DigitChar[n + 1]>>
    ELSE <<DigitChar[(n \div 10) + 1], DigitChar[(n % 10) + 1]>>

(***************************************************************************)
(* Database helpers.                                                       *)
(***************************************************************************)
\* save_chat_memory written as an upsert on (chat_id, role): an existing row is rewritten
save_chat_memory_upsert(table, chat_id, role, content) ==
    IF \E i \in 1..Len(table) : table[i].chat_id = Str(chat_id) /\ table[i].role = role
    THEN [i \in 1..Len(table) |->
             IF table[i].chat_id = Str(chat_id) /\ table[i].role = role
             THEN [table[i] EXCEPT !.content = content]
             ELSE table[i]]
    ELSE Append(table, [chat_id |-> Str(chat_id), role |-> role, content |-> content])

\* INSERT INTO chat_memory (chat_id, role, content); created_at is the insertion time
save_chat_memory(table, chat_id, role, content) ==
    Append(table, [chat_id |-> Str(chat_id), role |-> role, content |-> content])

\* load_chat_memory returning the fetched rows without reversing them
load_chat_memory_noreverse(table, chat_id, limit) ==
    LET sel == SelectSeq(table, LAMBDA r : r.chat_id = Str(chat_id))
        fetched == Take(Reverse(sel), limit)
    IN  [i \in 1..Len(fetched) |->
            [role |-> fetched[i].role, content |-> fetched[i].content]]

\* load_chat_memory ordering by created_at ASC: the oldest rows are kept
load_chat_memory_oldest(table, chat_id, limit) ==
    LET sel == SelectSeq(table, LAMBDA r : r.chat_id = Str(chat_id))
        fetched == Take(sel, limit)
    IN  [i \in 1..Len(fetched) |->
            [role |-> fetched[i].role, content |-> fetched[i].content]]

\* SELECT role, content ... WHERE chat_id ORDER BY created_at DESC LIMIT limit; rows[::-1]
load_chat_memory(table, chat_id, limit) ==
    LET sel == SelectSeq(table, LAMBDA r : r.chat_id = Str(chat_id))
        fetched == Take(Reverse(sel), limit)
        cols == [i \in 1..Len(fetched) |->
                    [role |-> fetched[i].role, content |-> fetched[i].content]]
    IN  Reverse(cols)

\* SELECT * FROM gd24_tasks WHERE file_id = %s AND question ILIKE '%text%' LIMIT 5
\* (no text of the model holds the wildcards % or _)
query_tasks(table, file_id, text) ==
    Take(SelectSeq(table, LAMBDA r : /\ r.file_id = file_id
                                     /\ Contains(Lower(text), Lower(r.question))),
         MaxResults)

\* INSERT INTO pdf_knowledge (file_id, content)
insert_pdf_knowledge(table, file_id, content) ==
    Append(table, [file_id |-> file_id, content |-> content])

(***************************************************************************)
(* Inputs: message texts, model replies, extracted PDF texts.              *)
(***************************************************************************)
Texts == { <<"t", "H", "I", "s">>, <<"x">> }
Replies == { <<"o", "k">>, <<"*", "*", "a", "*", "*", "$", "b", "$">> }
PdfTexts == { <<"a", "X", "b">> }
InitTasks == { <<[file_id |-> "d1", question |-> <<"X", "?">>]>> }

\* the Cyrillic greeting words are written in Latin transliteration
GreetingWords ==
    << <<"h", "i">>, <<"h", "e", "l", "l", "o">>,
       <<"p", "r", "i", "v", "e", "t">>,
       <<"z", "d", "r", "a", "v", "s", "t", "v", "u", "y">> >>

\* any(w in text.lower() for w in [...])
IsGreeting(text) ==
    \E k \in 1..Len(GreetingWords) : Contains(GreetingWords[k], Lower(text))

DefaultDirective == <<"You are a Smart Math & Physics Solver intelligent assistant ...">>
GreetingReply == <<"Privet! Chem mogu pomoch?">>
RefusalReply == <<"Izvinite, tol'ko admin mozhet zagruzhat' PDF dlya obucheniya.">>
SavedReply == <<"PDF uspeshno sokhranyon v baze znaniy.">>
HardcodedExpr == <<"A = A_0 \\left(\\frac{1}{2}\\right)^{t/T_{1/2}}">>

(***************************************************************************)
(* context.user_data: a dict per user, a function on the keys that are set *)
(***************************************************************************)
EmptyDict == [k \in {} |-> None]

SetKey(d, key, val) == [k \in (DOMAIN d) \cup {key} |-> IF k = key THEN val ELSE d[k]]

\* the test written as 'systemMessage' in context.user_data
SystemMessageSet_present(d) == "systemMessage" \in DOMAIN d

\* truthiness of context.user_data.get('systemMessage')
SystemMessageSet(d) == "systemMessage" \in DOMAIN d /\ d["systemMessage"] = TRUE

\* context.user_data.get('last_pdf_id'), None when unset
LastPdf(d) == IF "last_pdf_id" \in DOMAIN d THEN d["last_pdf_id"] ELSE None

(***************************************************************************)
(* Outcomes of the environment during one handler: database, remote model, *)
(* formula endpoint, download and PDF parsing.                             *)
(***************************************************************************)
\* A handler stops at its first exception, so one outcome names the one step that
\* fails (if any) and the reply the chat model gives when it is reached.
\* The Telegram transport (download of the file, delivery of replies) always succeeds,
\* and message.text is never empty.
\* A failure before the reply is read leaves the reply unused: one reply stands for all.
Envs ==
    [ fail : {"lookup", "load", "http", "malformed"}, reply : {<<"o", "k">>} ]
    \cup [ fail : {"none", "save_user", "save_assistant", "render"}, reply : Replies ]

DocEnvs == [ fail : {"none", "parse", "insert"}, text : PdfTexts ]

(***************************************************************************)
(* AI agent.                                                               *)
(***************************************************************************)
\* Messages with the test on system_message inverted
Messages_inverted(memory, user_text, system_message) ==
    LET sys == IF system_message THEN DefaultDirective ELSE user_text
    IN  <<[role |-> "system", content |-> sys]>>
        \o [i \in 1..Len(memory) |->
               [role |-> memory[i].role, content |-> memory[i].content]]
        \o (IF system_message THEN <<[role |-> "user", content |-> user_text]>>
            ELSE <<>>)

\* lines 62-69: the message list built from the loaded memory
Messages(memory, user_text, system_message) ==
    LET sys == IF ~system_message THEN DefaultDirective ELSE user_text
    IN  <<[role |-> "system", content |-> sys]>>
        \o [i \in 1..Len(memory) |->
               [role |-> memory[i].role, content |-> memory[i].content]]
        \o (IF ~system_message THEN <<[role |-> "user", content |-> user_text]>>
            ELSE <<>>)

\* call_gemini storing the user turn before the remote call is made
call_gemini_eager(table, chat_id, user_text, system_message, env) ==
    LET memory == load_chat_memory(table, chat_id, DefaultLimit)
        messages == Messages(memory, user_text, system_message)
        content == env.reply
        saved1 == save_chat_memory(table, chat_id, "user", user_text)
        saved2 == save_chat_memory(saved1, chat_id, "assistant", content)
    IN  IF env.fail = "load"
        THEN [table |-> table, posted |-> <<>>, returned |-> <<>>,
              raised |-> "OperationalError"]
        ELSE IF env.fail = "save_user"
        THEN [table |-> table, posted |-> <<>>, returned |-> <<>>,
              raised |-> "OperationalError"]
        ELSE IF env.fail = "http"
        THEN [table |-> saved1, posted |-> <<messages>>, returned |-> <<>>,
              raised |-> "HTTPError"]
        ELSE IF env.fail = "malformed"
        THEN [table |-> saved1, posted |-> <<messages>>, returned |-> <<>>,
              raised |-> "KeyError"]
        ELSE IF env.fail = "save_assistant"
        THEN [table |-> saved1, posted |-> <<messages>>, returned |-> <<>>,
              raised |-> "OperationalError"]
        ELSE [table |-> saved2, posted |-> <<messages>>, returned |-> <<content>>,
              raised |-> "none"]

\* call_gemini posting a second time when the first answer is an error status
call_gemini_retry(table, chat_id, user_text, system_message, env) ==
    LET memory == load_chat_memory(table, chat_id, DefaultLimit)
        messages == Messages(memory, user_text, system_message)
        content == env.reply
        saved1 == save_chat_memory(table, chat_id, "user", user_text)
        saved2 == save_chat_memory(saved1, chat_id, "assistant", content)
    IN  IF env.fail = "load"
        THEN [table |-> table, posted |-> <<>>, returned |-> <<>>,
              raised |-> "OperationalError"]
        ELSE IF env.fail = "http"
        THEN [table |-> table, posted |-> <<messages, messages>>, returned |-> <<>>,
              raised |-> "HTTPError"]
        ELSE IF env.fail = "malformed"
        THEN [table |-> table, posted |-> <<messages>>, returned |-> <<>>,
              raised |-> "KeyError"]
        ELSE IF env.fail = "save_user"
        THEN [table |-> table, posted |-> <<messages>>, returned |-> <<>>,
              raised |-> "OperationalError"]
        ELSE IF env.fail = "save_assistant"
        THEN [table |-> saved1, posted |-> <<messages>>, returned |-> <<>>,
              raised |-> "OperationalError"]
        ELSE [table |-> saved2, posted |-> <<messages>>, returned |-> <<content>>,
              raised |-> "none"]

\* call_gemini storing the assistant turn before the user turn
call_gemini_swapped(table, chat_id, user_text, system_message, env) ==
    LET memory == load_chat_memory(table, chat_id, DefaultLimit)
        messages == Messages(memory, user_text, system_message)
        content == env.reply
        saved1 == save_chat_memory(table, chat_id, "assistant", content)
        saved2 == save_chat_memory(saved1, chat_id, "user", user_text)
    IN  IF env.fail = "load"
        THEN [table |-> table, posted |-> <<>>, returned |-> <<>>,
              raised |-> "OperationalError"]
        ELSE IF env.fail = "http"
        THEN [table |-> table, posted |-> <<messages>>, returned |-> <<>>,
              raised |-> "HTTPError"]
        ELSE IF env.fail = "malformed"
        THEN [table |-> table, posted |-> <<messages>>, returned |-> <<>>,
              raised |-> "KeyError"]
        ELSE IF env.fail = "save_user"
        THEN [table |-> table, posted |-> <<messages>>, returned |-> <<>>,
              raised |-> "OperationalError"]
        ELSE IF env.fail = "save_assistant"
        THEN [table |-> saved1, posted |-> <<messages>>, returned |-> <<>>,
              raised |-> "OperationalError"]
        ELSE [table |-> saved2, posted |-> <<messages>>, returned |-> <<content>>,
              raised |-> "none"]

\* The outcome of one call: the table afterwards, the bodies posted, the value returned
\* (<<answer>>) or the exception raised, and whether the remote call was reached.
call_gemini(table, chat_id, user_text, system_message, env) ==
    LET memory == load_chat_memory(table, chat_id, DefaultLimit)
        messages == Messages(memory, user_text, system_message)
        content == env.reply
        saved1 == save_chat_memory(table, chat_id, "user", user_text)
        saved2 == save_chat_memory(saved1, chat_id, "assistant", content)
    IN  IF env.fail = "load"
        THEN [table |-> table, posted |-> <<>>, returned |-> <<>>,
              raised |-> "OperationalError"]
        ELSE IF env.fail = "http"
        THEN [table |-> table, posted |-> <<messages>>, returned |-> <<>>,
              raised |-> "HTTPError"]
        ELSE IF env.fail = "malformed"
        THEN [table |-> table, posted |-> <<messages>>, returned |-> <<>>,
              raised |-> "KeyError"]
        ELSE IF env.fail = "save_user"
        THEN [table |-> table, posted |-> <<messages>>, returned |-> <<>>,
              raised |-> "OperationalError"]
        ELSE IF env.fail = "save_assistant"
        THEN [table |-> saved1, posted |-> <<messages>>, returned |-> <<>>,
              raised |-> "OperationalError"]
        ELSE [table |-> saved2, posted |-> <<messages>>, returned |-> <<content>>,
              raised |-> "none"]

\* the image the formula endpoint returns for an expression
Png(latex_expr) == <<"png">> \o latex_expr

\* render_reply taking the rich path for every answer
render_reply_always(answer, env) ==
    LET expr == HardcodedExpr
        html == Replace(Replace(answer, <<"*", "*">>, <<"<b>">>), <<"$">>, <<>>)
    IN  IF env.fail # "render"
        THEN [latex |-> <<expr>>, raised |-> "none",
              sent |-> <<[method |-> "reply_html", body |-> html],
                         [method |-> "reply_photo", body |-> Png(expr)]>>]
        ELSE [latex |-> <<expr>>, raised |-> "HTTPError", sent |-> <<>>]

\* lines 137-144: what is sent for an answer, and what the formula endpoint is asked
render_reply(answer, env) ==
    IF Contains(<<"$">>, answer)
    THEN LET expr == HardcodedExpr
             html == Replace(Replace(answer, <<"*", "*">>, <<"<b>">>), <<"$">>, <<>>)
         IN  IF env.fail # "render"
             THEN [latex |-> <<expr>>, raised |-> "none",
                   sent |-> <<[method |-> "reply_html", body |-> html],
                              [method |-> "reply_photo", body |-> Png(expr)]>>]
             ELSE [latex |-> <<expr>>, raised |-> "HTTPError", sent |-> <<>>]
    ELSE [latex |-> <<>>, raised |-> "none",
          sent |-> <<[method |-> "reply_text", body |-> answer]>>]

(***************************************************************************)
(* Handlers.                                                               *)
(***************************************************************************)
Observe(u, tr, po, la, se, ra, ta, re) ==
    /\ update' = u
    /\ trace' = tr
    /\ posted' = po
    /\ latex' = la
    /\ sent' = se
    /\ raised' = ra
    /\ tasks' = ta
    /\ returned' = re

\* the turns a call of call_gemini stored: the rows it added, as (role, content)
Stored(before, after) ==
    [i \in 1..(Len(after) - Len(before)) |->
        [role |-> after[Len(before) + i].role, content |-> after[Len(before) + i].content]]

DocumentUpdate(user_id, chat_id, file_id) ==
    [kind |-> "document", user_id |-> user_id, chat_id |-> chat_id, file_id |-> file_id]

TextUpdate(user_id, chat_id, text) ==
    [kind |-> "text", user_id |-> user_id, chat_id |-> chat_id, text |-> text]

\* handle_document without the test of the sender against ADMIN_ID
handle_document_open(user_id, chat_id, file_id) ==
    LET u == DocumentUpdate(user_id, chat_id, file_id)
        quiet == UNCHANGED <<chat_memory, pdf_knowledge, gd24_tasks, user_data,
                             appended, rows>>
    IN  \E env \in DocEnvs :
             IF env.fail = "parse"
             THEN Observe(u, <<>>, <<>>, <<>>, <<>>, "PdfReadError", <<>>, <<>>) /\ quiet
             ELSE IF env.fail = "insert"
             THEN Observe(u, <<"ingest">>, <<>>, <<>>, <<>>, "OperationalError", <<>>, <<>>)
                  /\ quiet
             ELSE /\ Len(pdf_knowledge) < MaxDocs
                  /\ pdf_knowledge' = insert_pdf_knowledge(pdf_knowledge, file_id, env.text)
                  /\ user_data' = [user_data EXCEPT ![user_id] =
                                      SetKey(SetKey(@, "last_pdf_id", file_id),
                                             "systemMessage", TRUE)]
                  /\ Observe(u, <<"ingest">>, <<>>, <<>>,
                             <<[method |-> "reply_text", body |-> SavedReply]>>,
                             "none", <<>>, <<>>)
                  /\ UNCHANGED <<chat_memory, gd24_tasks, appended, rows>>

handle_document(user_id, chat_id, file_id) ==
    LET u == DocumentUpdate(user_id, chat_id, file_id)
        quiet == UNCHANGED <<chat_memory, pdf_knowledge, gd24_tasks, user_data,
                             appended, rows>>
    IN  IF user_id # ADMIN_ID
        THEN /\ Observe(u, <<>>, <<>>, <<>>,
                        <<[method |-> "reply_text", body |-> RefusalReply]>>,
                        "none", <<>>, <<>>)
             /\ quiet
        ELSE \E env \in DocEnvs :
             IF env.fail = "parse"
             THEN Observe(u, <<>>, <<>>, <<>>, <<>>, "PdfReadError", <<>>, <<>>) /\ quiet
             ELSE IF env.fail = "insert"
             THEN Observe(u, <<"ingest">>, <<>>, <<>>, <<>>, "OperationalError", <<>>, <<>>)
                  /\ quiet
             ELSE /\ Len(pdf_knowledge) < MaxDocs
                  /\ pdf_knowledge' = insert_pdf_knowledge(pdf_knowledge, file_id, env.text)
                  /\ user_data' = [user_data EXCEPT ![user_id] =
                                      SetKey(SetKey(@, "last_pdf_id", file_id),
                                             "systemMessage", TRUE)]
                  /\ Observe(u, <<"ingest">>, <<>>, <<>>,
                             <<[method |-> "reply_text", body |-> SavedReply]>>,
                             "none", <<>>, <<>>)
                  /\ UNCHANGED <<chat_memory, gd24_tasks, appended, rows>>

\* lines 131-144 of handle_text, for one outcome of the environment
answer_text(user_id, chat_id, text, env) ==
    LET u == TextUpdate(user_id, chat_id, text)
        last_pdf == LastPdf(user_data[user_id])
        found == IF last_pdf # None THEN query_tasks(gd24_tasks, last_pdf, text) ELSE <<>>
        res == call_gemini(chat_memory, chat_id, text, FALSE, env)
        out == render_reply(res.returned[1], env)
        stages == (IF last_pdf # None THEN <<"lookup">> ELSE <<>>) \o <<"assemble">>
                  \o (IF res.posted # <<>> THEN <<"ask">> ELSE <<>>)
    IN  IF last_pdf # None /\ env.fail = "lookup"
        THEN /\ Observe(u, <<"lookup">>, <<>>, <<>>, <<>>, "OperationalError", <<>>, <<>>)
             /\ UNCHANGED <<chat_memory, appended>>
        ELSE /\ chat_memory' = res.table
             /\ appended' = [appended EXCEPT ![chat_id] =
                                @ \o Stored(chat_memory, res.table)]
             /\ IF res.raised # "none"
                THEN Observe(u, stages, res.posted, <<>>, <<>>, res.raised, found, <<>>)
                ELSE Observe(u, stages \o <<"render">>, res.posted, out.latex, out.sent,
                             out.raised, found, res.returned)

\* the priming turn dropped without resetting the flag
consume_priming_keep(user_id, chat_id, text) ==
    /\ Observe(TextUpdate(user_id, chat_id, text), <<>>, <<>>, <<>>, <<>>, "none",
               <<>>, <<>>)
    /\ UNCHANGED <<chat_memory, pdf_knowledge, gd24_tasks, user_data, appended, rows>>

\* the priming turn resets the flag and is forwarded as the system message
consume_priming_forward(user_id, chat_id, text) ==
    /\ user_data' = [user_data EXCEPT ![user_id] = SetKey(@, "systemMessage", FALSE)]
    /\ \E env \in Envs :
          LET res == call_gemini(chat_memory, chat_id, text, TRUE, env)
          IN  /\ chat_memory' = res.table
              /\ appended' = [appended EXCEPT ![chat_id] =
                                 @ \o Stored(chat_memory, res.table)]
              /\ Observe(TextUpdate(user_id, chat_id, text), <<"assemble", "ask">>,
                         res.posted, <<>>, <<>>, res.raised, <<>>, res.returned)
    /\ UNCHANGED <<pdf_knowledge, gd24_tasks, rows>>

\* lines 127-129: the priming turn resets the flag and is dropped
consume_priming(user_id, chat_id, text) ==
    /\ user_data' = [user_data EXCEPT ![user_id] = SetKey(@, "systemMessage", FALSE)]
    /\ Observe(TextUpdate(user_id, chat_id, text), <<>>, <<>>, <<>>, <<>>, "none",
               <<>>, <<>>)
    /\ UNCHANGED <<chat_memory, pdf_knowledge, gd24_tasks, appended, rows>>

handle_text(user_id, chat_id, text) ==
    LET u == TextUpdate(user_id, chat_id, text)
    IN  IF IsGreeting(text)
        THEN /\ Observe(u, <<>>, <<>>, <<>>,
                        <<[method |-> "reply_text", body |-> GreetingReply]>>,
                        "none", <<>>, <<>>)
             /\ UNCHANGED <<chat_memory, pdf_knowledge, gd24_tasks, user_data,
                            appended, rows>>
        ELSE IF SystemMessageSet(user_data[user_id])
        THEN consume_priming(user_id, chat_id, text)
        ELSE /\ Len(chat_memory) + 2 <= MaxRows
             /\ \E env \in Envs : answer_text(user_id, chat_id, text, env)
             /\ UNCHANGED <<pdf_knowledge, gd24_tasks, user_data, rows>>

(***************************************************************************)
(* The memory store used directly: append one turn, read a recent window.  *)
(***************************************************************************)
Roles == {"user", "assistant"}
Contents == { <<"x">>, <<"o", "k">> }
Limits == (1..MaxLimit) \cup {DefaultLimit}

\* DefaultLimit turns of chat 1 already in the table when the process starts
Prefilled ==
    [i \in 1..DefaultLimit |->
        [chat_id |-> Str(1),
         role |-> IF i % 2 = 1 THEN "user" ELSE "assistant",
         content |-> IF i % 2 = 1 THEN <<"x">> ELSE <<"o", "k">>]]

\* rows already in the table at start: none, or the prefilled ones
Base(table) == IF Len(table) >= DefaultLimit THEN DefaultLimit ELSE 0

Save(chat_id, role, content) ==
    /\ Len(chat_memory) - Base(chat_memory) < MaxAppend
    /\ chat_memory' = save_chat_memory(chat_memory, chat_id, role, content)
    /\ appended' = [appended EXCEPT ![chat_id] =
                       Append(@, [role |-> role, content |-> content])]
    /\ update' = [kind |-> "save", chat_id |-> chat_id, role |-> role,
                  content |-> content]
    /\ rows' = <<>>
    /\ posted' = <<>>
    /\ UNCHANGED <<pdf_knowledge, gd24_tasks, user_data, trace, latex, sent,
                   raised, tasks, returned>>

Load(chat_id, limit) ==
    /\ rows' = load_chat_memory(chat_memory, chat_id, limit)
    /\ update' = [kind |-> "load", chat_id |-> chat_id, limit |-> limit]
    /\ posted' = <<>>
    /\ UNCHANGED <<chat_memory, pdf_knowledge, gd24_tasks, user_data, trace,
                   latex, sent, raised, tasks, returned, appended>>

\* lines 61-69 alone: load the memory and build the message list
Assemble(chat_id, user_text) ==
    /\ posted' = <<Messages(load_chat_memory(chat_memory, chat_id, DefaultLimit),
                            user_text, FALSE)>>
    /\ update' = [kind |-> "assemble", chat_id |-> chat_id, text |-> user_text]
    /\ rows' = <<>>
    /\ UNCHANGED <<chat_memory, pdf_knowledge, gd24_tasks, user_data, trace,
                   latex, sent, raised, tasks, returned, appended>>

(***************************************************************************)
(* Specifications.                                                         *)
(***************************************************************************)
NoUpdate == [kind |-> "none"]

InitRest ==
    /\ pdf_knowledge = <<>>
    /\ user_data = [u \in Users |-> EmptyDict]
    /\ update = NoUpdate
    /\ trace = <<>>
    /\ posted = <<>>
    /\ latex = <<>>
    /\ sent = <<>>
    /\ raised = "none"
    /\ tasks = <<>>
    /\ returned = <<>>
    /\ appended = [c \in Chats |-> <<>>]
    /\ rows = <<>>

Init ==
    /\ chat_memory = <<>>
    /\ gd24_tasks \in InitTasks
    /\ InitRest

Next ==
    \/ \E s \in Senders, file_id \in FileIds : handle_document(s[1], s[2], file_id)
    \/ \E s \in Senders, text \in Texts : handle_text(s[1], s[2], text)

Spec == Init /\ [][Next]_vars

InitMem ==
    /\ chat_memory \in {<<>>, Prefilled}
    /\ gd24_tasks = <<>>
    /\ InitRest

NextMem ==
    \/ \E chat_id \in Chats, role \in Roles, content \in Contents :
          Save(chat_id, role, content)
    \/ \E chat_id \in Chats, limit \in Limits : Load(chat_id, limit)
    \/ \E chat_id \in Chats, user_text \in Contents : Assemble(chat_id, user_text)

SpecMem == InitMem /\ [][NextMem]_vars

(***************************************************************************)
(* Notions the properties are stated with.                                 *)
(***************************************************************************)
\* all turns of a chat in the table, oldest first
ChatTurns(table, chat_id) ==
    LET sel == SelectSeq(table, LAMBDA r : r.chat_id = Str(chat_id))
    IN  [i \in 1..Len(sel) |-> [role |-> sel[i].role, content |-> sel[i].content]]

\* the last n elements of s, all of s when it is shorter
LastN(s, n) == IF Len(s) <= n THEN s ELSE SubSeq(s, Len(s) - n + 1, Len(s))

(***************************************************************************)
(* Memory store (specification SpecMem).                                   *)
(***************************************************************************)
\* C1: after turns t1..tn were appended to a chat in that order, reading its n most
\* recent turns returns exactly <<t1, ..., tn>>, oldest first, whatever the table held
\* before and whatever other chats stored in between; a chat without turns reads as
\* the empty sequence.
ChronologicalRoundTrip ==
    update.kind = "load" =>
        /\ update.limit = Len(appended[update.chat_id])
              => rows = appended[update.chat_id]
        /\ (\A i \in 1..Len(chat_memory) : chat_memory[i].chat_id # Str(update.chat_id))
              => rows = <<>>

RoundTripRead ==
    /\ update.kind = "load"
    /\ update.limit = Len(appended[update.chat_id])
    /\ Len(rows) >= 2
    /\ rows[1] # rows[2]
    /\ Len(chat_memory) > Len(rows)
    /\ chat_memory[Len(chat_memory)].chat_id # Str(update.chat_id)

\* C2: a read with a positive limit returns at most limit turns, all of them turns of
\* the chat, and exactly the limit most recent ones, oldest first, when the chat holds
\* more; the message list built for the chat model replays at most the DefaultLimit
\* most recent turns.
RecentWindow ==
    /\ update.kind = "load" =>
          /\ Len(rows) <= update.limit
          /\ rows = LastN(ChatTurns(chat_memory, update.chat_id), update.limit)
    /\ update.kind = "assemble" =>
          LET replay == SubSeq(posted[1], 2, Len(posted[1]) - 1)
          IN  /\ Len(replay) <= DefaultLimit
              /\ replay = LastN(ChatTurns(chat_memory, update.chat_id), DefaultLimit)

WindowTruncates ==
    /\ update.kind = "load"
    /\ update.limit = DefaultLimit
    /\ Len(ChatTurns(chat_memory, update.chat_id)) > DefaultLimit
    /\ Len(rows) = DefaultLimit
    /\ rows[DefaultLimit] = appended[update.chat_id][Len(appended[update.chat_id])]

(***************************************************************************)
(* Reasoning client (specification Spec).                                  *)
(***************************************************************************)
\* the remote call of the text turn just handled was made and failed
RemoteCallFailed ==
    /\ update.kind = "text"
    /\ posted # <<>>
    /\ returned = <<>>
    /\ raised \in {"HTTPError", "KeyError"}

\* C3: a text turn whose remote call fails (error status, or a body without the reply
\* field) leaves chat_memory exactly as it was: neither the user turn nor an assistant
\* turn is stored.
FailedCallLeavesMemory ==
    [][RemoteCallFailed' => chat_memory' = chat_memory]_vars

FailedCallAfterTurns ==
    /\ RemoteCallFailed
    /\ raised = "KeyError"
    /\ Len(chat_memory) = 2
    /\ Len(posted[1]) = 4

\* call_gemini returned while handling the text turn just handled
AskSucceeded == update.kind = "text" /\ returned # <<>>

\* C4: when call_gemini returns, chat_memory holds exactly two new rows, placed after
\* all earlier rows: (chat, user, text) then (chat, assistant, reply), the returned
\* value is that reply, and the turns of every other chat are unchanged.
SuccessfulAskStoresPair ==
    [][AskSucceeded' =>
          /\ Len(chat_memory') = Len(chat_memory) + 2
          /\ SubSeq(chat_memory', 1, Len(chat_memory)) = chat_memory
          /\ chat_memory'[Len(chat_memory) + 1] =
                [chat_id |-> Str(update'.chat_id), role |-> "user",
                 content |-> update'.text]
          /\ chat_memory'[Len(chat_memory) + 2] =
                [chat_id |-> Str(update'.chat_id), role |-> "assistant",
                 content |-> returned'[1]]
          /\ returned'[1] \in Replies
          /\ \A c \in Chats \ {update'.chat_id} :
                ChatTurns(chat_memory', c) = ChatTurns(chat_memory, c)]_vars

SecondAskInOtherChat ==
    /\ AskSucceeded
    /\ Len(chat_memory) = 4
    /\ chat_memory[1].chat_id # chat_memory[3].chat_id
    /\ chat_memory[3].content = update.text
    /\ chat_memory[4].content = returned[1]

(***************************************************************************)
(* Conversation state (specification Spec).  The state of a turn is the    *)
(* sender's context.user_data: last_pdf_id is active_document_id and       *)
(* systemMessage is awaiting_system_priming.                               *)
(***************************************************************************)
Awaiting(d) == "systemMessage" \in DOMAIN d /\ d["systemMessage"]

FlagReset(d) == "systemMessage" \in DOMAIN d /\ ~d["systemMessage"]

ActiveDocument(d) == IF "last_pdf_id" \in DOMAIN d THEN d["last_pdf_id"] ELSE None

\* the text turn just handled was dropped without any reply
Absorbed ==
    /\ update.kind = "text"
    /\ trace = <<>>
    /\ sent = <<>>
    /\ raised = "none"

\* the document just handled was stored
Ingested ==
    /\ update.kind = "document"
    /\ raised = "none"
    /\ sent = <<[method |-> "reply_text", body |-> SavedReply]>>

\* a request body that carries text as a normal user turn
AsUserTurn(messages, text) ==
    /\ Len(messages) >= 2
    /\ messages[1] = [role |-> "system", content |-> DefaultDirective]
    /\ messages[Len(messages)] = [role |-> "user", content |-> text]
    /\ \A i \in 2..Len(messages) : messages[i].role # "system"

\* a turn is absorbed only while the flag is set, and absorbing it resets the flag
AbsorbedConsumesFlag ==
    Absorbed' => /\ Awaiting(user_data[update'.user_id])
                 /\ FlagReset(user_data'[update'.user_id])

IngestionSetsState ==
    Ingested' => /\ ActiveDocument(user_data'[update'.user_id]) = update'.file_id
                 /\ Awaiting(user_data'[update'.user_id])
                 /\ Len(pdf_knowledge') = Len(pdf_knowledge) + 1
                 /\ pdf_knowledge'[Len(pdf_knowledge')].file_id = update'.file_id

LookedUp ==
    /\ update.kind = "text"
    /\ Len(trace) >= 2
    /\ trace[1] = "lookup"

\* a lookup result holds the knowledge unit (the rows returned carry their text in
\* the column question)
Returns(results, unit) ==
    \E j \in 1..Len(results) :
        /\ results[j].file_id = unit.file_id
        /\ results[j].question = unit.content

\* C8: after a document D was ingested, a lookup in D for a text that its content
\* contains (case-insensitively) returns that knowledge unit, and a lookup in another
\* document never returns it.
LookupFindsIngestedUnit ==
    LookedUp =>
        \A i \in 1..Len(pdf_knowledge) :
            LET unit == pdf_knowledge[i]
                active == ActiveDocument(user_data[update.user_id])
            IN  /\ (/\ unit.file_id = active
                    /\ Contains(Lower(update.text), Lower(unit.content)))
                      => Returns(tasks, unit)
                /\ unit.file_id # active => ~Returns(tasks, unit)

(***************************************************************************)
(* Pipeline of a text turn (specification Spec).                           *)
(***************************************************************************)
ExpectedStages(d) ==
    (IF ActiveDocument(d) # None THEN <<"lookup">> ELSE <<>>)
    \o <<"assemble", "ask", "render">>

IsPrefix(p, s) == Len(p) <= Len(s) /\ SubSeq(s, 1, Len(p)) = p

Entered(stage) == \E i \in 1..Len(trace) : trace[i] = stage

SystemCount(messages) ==
    Cardinality({i \in 1..Len(messages) : messages[i].role = "system"})

\* C10: every request body a text turn sends is the default system directive, then the
\* (at most DefaultLimit) most recent turns of the chat as stored before the turn,
\* oldest first and with their stored roles, then one user message holding the text;
\* it holds exactly one system message, and chat_memory never holds a system row.
RequestShape ==
    [][/\ \A i \in 1..Len(chat_memory') : chat_memory'[i].role \in {"user", "assistant"}
       /\ update'.kind = "text" =>
             \A k \in 1..Len(posted') :
                 /\ posted'[k] =
                       <<[role |-> "system", content |-> DefaultDirective]>>
                       \o LastN(ChatTurns(chat_memory, update'.chat_id), DefaultLimit)
                       \o <<[role |-> "user", content |-> update'.text]>>
                 /\ SystemCount(posted'[k]) = 1]_vars

RequestReplaysTurns ==
    /\ update.kind = "text"
    /\ raised = "none"
    /\ Len(posted) = 1
    /\ Len(posted[1]) = 4
    /\ posted[1][2].role = "user"
    /\ posted[1][3].role = "assistant"
    /\ posted[1][3].content # posted[1][2].content

(***************************************************************************)
(* Reply rendering (specification Spec).                                   *)
(***************************************************************************)
HasMarker(text) == \E i \in 1..Len(text) : text[i] = "$"

Photos == {i \in 1..Len(sent) : sent[i].method = "reply_photo"}

\* C11: a reply without the marker $ is sent as plain text, unchanged, with no call to
\* the formula endpoint and no image.
PlainReplyUnchanged ==
    (AskSucceeded /\ ~HasMarker(returned[1]))
        => /\ sent = <<[method |-> "reply_text", body |-> returned[1]]>>
           /\ latex = <<>>
           /\ Photos = {}
           /\ raised = "none"

PlainReplySent ==
    /\ AskSucceeded
    /\ returned[1] = <<"o", "k">>
    /\ sent = <<[method |-> "reply_text", body |-> <<"o", "k">>]>>
    /\ Len(chat_memory) = 4

\* the styled text of a reply: ** turned into the bold tag, $ removed
Styled(text) == Replace(Replace(text, <<"*", "*">>, <<"<b>">>), <<"$">>, <<>>)

\* C12: a reply with the marker $ always gets its styled text sent, with at most one
\* image (exactly one is asked of the formula endpoint), and no failure leaves the turn
\* even when the formula endpoint fails.
RichReplyAlwaysSendsText ==
    (AskSucceeded /\ HasMarker(returned[1]))
        => /\ raised = "none"
           /\ Len(latex) = 1
           /\ Len(sent) >= 1
           /\ sent[1] = [method |-> "reply_html", body |-> Styled(returned[1])]
           /\ Cardinality(Photos) <= 1

\* C13: a text turn whose remote call fails ends with a message sent to the chat, and
\* the remote call was made exactly once.
FailedCallIsReported ==
    RemoteCallFailed => /\ sent # <<>>
                        /\ Len(posted) = 1

\* the text between the first $ of a reply and the next one
DelimitedFormula(text) ==
    LET marks == {i \in 1..Len(text) : text[i] = "$"}
        first == CHOOSE i \in marks : \A j \in marks : i <= j
        rest == marks \ {first}
        second == IF rest = {} THEN Len(text) + 1
                  ELSE CHOOSE i \in rest : \A j \in rest : i <= j
    IN  SubSeq(text, first + 1, second - 1)

\* C16: the expression given to the formula endpoint is exactly the formula delimited
\* by $ in the reply.
RendererGetsReplyFormula ==
    (AskSucceeded /\ latex # <<>>) => latex = <<DelimitedFormula(returned[1])>>

(***************************************************************************)
(* Failures of the database during a text turn (specification Spec).       *)
(***************************************************************************)
\* the request body of a text turn when the lookup adds no fragment
PlainRequest(table, chat_id, text) ==
    <<[role |-> "system", content |-> DefaultDirective]>>
    \o LastN(ChatTurns(table, chat_id), DefaultLimit)
    \o <<[role |-> "user", content |-> text]>>

\* C14: a text turn that consults the lookup is never aborted by it: it always goes on
\* to context assembly, also when the lookup fails, and what it sends to the chat model
\* is the message sequence of a lookup that returns no fragment.
LookupNeverAborts ==
    [][(update'.kind = "text" /\ Entered("lookup")')
          => /\ Entered("assemble")'
             /\ \A k \in 1..Len(posted') :
                    posted'[k] = PlainRequest(chat_memory, update'.chat_id, update'.text)]_vars

\* C15: a text turn stores both of its turns or none: chat_memory never gains the user
\* turn alone, also when a write fails.
TurnWritesBothOrNeither ==
    [][update'.kind = "text"
          => \/ chat_memory' = chat_memory
             \/ Len(chat_memory') = Len(chat_memory) + 2]_vars

(***************************************************************************)
(* Isolation of conversations (specification Spec).                        *)
(***************************************************************************)
\* C17: handling a message of one chat changes neither the turns of any other chat nor
\* the conversation state (last_pdf_id, systemMessage) that a message of any other chat
\* is handled with.
OtherChatsUntouched ==
    [][update'.kind \in {"text", "document"} =>
          \A s \in Senders :
              s[2] # update'.chat_id
                 => /\ ChatTurns(chat_memory', s[2]) = ChatTurns(chat_memory, s[2])
                    /\ user_data'[s[1]] = user_data[s[1]]]_vars

(***************************************************************************)
(* The memory store is append-only (specification Spec).                   *)
(***************************************************************************)
\* C18: every step keeps the rows chat_memory holds, with chat, role and content, in
\* the same order: the table before the step is a prefix of the table after it.
MemoryAppendOnly ==
    [][/\ IsPrefix(chat_memory, chat_memory')
       /\ \A c \in Chats : IsPrefix(ChatTurns(chat_memory, c), ChatTurns(chat_memory', c))
      ]_vars

MemoryKeptAcrossOperations ==
    /\ RemoteCallFailed
    /\ Len(chat_memory) = 2
    /\ chat_memory[1].chat_id # Str(update.chat_id)
    /\ Len(pdf_knowledge) >= 1
    /\ FlagReset(user_data[ADMIN_ID])

(***************************************************************************)
(* Uploads by other users (specification Spec).                            *)
(***************************************************************************)
\* C19: a document sent by a user other than ADMIN_ID stores nothing and leaves every
\* user's last_pdf_id and systemMessage as they were; only the refusal is sent.
ForeignUploadRefused ==
    [][(update'.kind = "document" /\ update'.user_id # ADMIN_ID)
          => /\ pdf_knowledge' = pdf_knowledge
             /\ user_data' = user_data
             /\ chat_memory' = chat_memory
             /\ sent' = <<[method |-> "reply_text", body |-> RefusalReply]>>
             /\ raised' = "none"]_vars

RefusedWhileAdminPrimed ==
    /\ update.kind = "document"
    /\ update.user_id # ADMIN_ID
    /\ sent = <<[method |-> "reply_text", body |-> RefusalReply]>>
    /\ Len(pdf_knowledge) = 1
    /\ Awaiting(user_data[ADMIN_ID])
    /\ user_data[update.user_id] = EmptyDict

====
